---- MODULE Spec2Model ----
(***************************************************************************)
(* Model of the snakejs genetic-algorithm core:                            *)
(*   src/src/utils.js                          weightedRandomSelection     *)
(*   src/src/controllers/gameInstancesManager.js  GameInstancesManager     *)
(*   src/src/managers/gameInstance.js          GameInstance                *)
(*                                                                         *)
(* JavaScript numbers are modelled as exact rationals plus NaN.  The       *)
(* cumulative sum of the selection loop adds the weights in the same order *)
(* as the reduce() that computes totalWeight, so rounding cannot make the  *)
(* last cumulative weight differ from totalWeight; exact arithmetic keeps  *)
(* every comparison outcome the claims depend on.                          *)
(***************************************************************************)
EXTENDS Integers, Sequences, FiniteSets, TLC

\* ---------------------------------------------------------------- bounds
\* weightedRandomSelection called alone: Math.random() is drawn from
\* { 0/RandDen, ..., (RandDen-1)/RandDen }.
RandDen == 4
\* selection(): each Math.random() is drawn from
\* { 0/GenRandDen, ..., (GenRandDen-1)/GenRandDen }.
GenRandDen == 3
\* Longest elements / weights array handed to weightedRandomSelection alone.
MaxLen == 3
\* Largest finite weight handed to weightedRandomSelection alone.
MaxWeight == 3
\* nInstances, the constructor argument of the GameInstancesManager.
NInstances == 2
\* createGameInstances is explored while the population stays within this size.
MaxPopulation == 4
\* Longest snake body explored (the snake stops eating at this length).
MaxSnakeLen == 2
\* Largest brain parameter explored (mutate stops being explored beyond it).
MaxBrain == 2
\* Food locations explored are 0..MaxLoc.
MaxLoc == 1
\* Proportions are counted over DrawsPerUnit equally spaced draws per unit
\* of total weight.
DrawsPerUnit == 4

\* --------------------------------------------------------------- numbers
NaN == [nan |-> TRUE, n |-> 0, d |-> 1]

Rat(n, d) == [nan |-> FALSE, n |-> n, d |-> d]

isNaN(a) == a.nan

\* a + b
Add(a, b) ==
  IF a.nan \/ b.nan THEN NaN ELSE Rat(a.n * b.d + b.n * a.d, a.d * b.d)

\* a * b
Mul(a, b) ==
  IF a.nan \/ b.nan THEN NaN ELSE Rat(a.n * b.n, a.d * b.d)

\* a <= b ; any comparison with NaN is false
Leq(a, b) == ~a.nan /\ ~b.nan /\ a.n * b.d <= b.n * a.d

\* f / t for integers f >= 0, t >= 0 with f <= t: 0/0 is NaN.
Div(f, t) == IF t = 0 THEN NaN ELSE Rat(f, t)

\* ------------------------------------------------ weightedRandomSelection
\* The "no selection" result; elements are positive integers.
Null == 0

\* weights[i] as the loop reads it: an index past the end reads undefined,
\* and cumulativeWeight += undefined is NaN.
WeightAt(weights, i) == IF i <= Len(weights) THEN weights[i] ELSE NaN

\* weights.every((weight) => isNaN(weight))
AllNaN(weights) == \A i \in 1..Len(weights) : isNaN(weights[i])

\* Faulty variant of WeightsAfter: the all-NaN case is not replaced.
WeightsAfterNoFill(weights) == weights

\* The weights array after the call: fill() overwrites the caller's array.
WeightsAfter(weights) ==
  IF AllNaN(weights)
    THEN [i \in 1..Len(weights) |-> Rat(1, Len(weights))]
    ELSE weights

RECURSIVE SumFromSkipNaN(_, _, _)
\* Faulty variant of SumFrom: NaN weights are left out of the total.
SumFromSkipNaN(weights, i, acc) ==
  IF i > Len(weights) THEN acc
  ELSE SumFromSkipNaN(weights, i + 1,
                      IF isNaN(weights[i]) THEN acc ELSE Add(acc, weights[i]))

RECURSIVE SumFrom(_, _, _)
\* weights.reduce((acc, weight) => acc + weight, 0), from index i with acc
SumFrom(weights, i, acc) ==
  IF i > Len(weights) THEN acc
  ELSE SumFrom(weights, i + 1, Add(acc, weights[i]))

\* Faulty variant of TotalWeight: the draw is not scaled by the total.
TotalWeightOne(weights) == Rat(1, 1)

TotalWeight(weights) == SumFrom(weights, 1, Rat(0, 1))

\* Faulty variant of Reached: randomValue < cumulativeWeight.
ReachedStrict(randomValue, cumulativeWeight) ==
  ~randomValue.nan /\ ~cumulativeWeight.nan
    /\ randomValue.n * cumulativeWeight.d < cumulativeWeight.n * randomValue.d

\* randomValue <= cumulativeWeight
Reached(randomValue, cumulativeWeight) == Leq(randomValue, cumulativeWeight)

RECURSIVE ScanStopsEarly(_, _, _, _, _)
\* Faulty variant of Scan: the loop runs while i < elements.length - 1.
ScanStopsEarly(elements, weights, randomValue, i, cumulativeWeight) ==
  IF i >= Len(elements) THEN Null
  ELSE LET c == Add(cumulativeWeight, WeightAt(weights, i))
       IN IF Reached(randomValue, c) THEN elements[i]
          ELSE ScanStopsEarly(elements, weights, randomValue, i + 1, c)

RECURSIVE Scan(_, _, _, _, _)
\* The for loop from index i with the running cumulativeWeight.
Scan(elements, weights, randomValue, i, cumulativeWeight) ==
  IF i > Len(elements) THEN Null
  ELSE LET c == Add(cumulativeWeight, WeightAt(weights, i))
       IN IF Reached(randomValue, c) THEN elements[i]
          ELSE Scan(elements, weights, randomValue, i + 1, c)

\* The value returned when Math.random() returns random.
weightedRandomSelection(elements, weights, random) ==
  LET w == WeightsAfter(weights)
      totalWeight == TotalWeight(w)
      randomValue == Mul(random, totalWeight)
  IN Scan(elements, w, randomValue, 1, Rat(0, 1))

\* ---------------------------------------------------------- collaborators
\* new Snake(): a one-segment snake with the default brain, not crashed.
NewSnake == [brain |-> 0, len |-> 1, dead |-> FALSE]

\* new Food()
NewFood == [loc |-> 0]

\* snake.copy(): an independent snake with the same contents.
SnakeCopy(snake) == [brain |-> snake.brain, len |-> snake.len, dead |-> snake.dead]

\* food.copy(): an independent food with the same contents.
FoodCopy(food) == [loc |-> food.loc]

\* food.updateLocation(): the food moves to another location.
updateLocation(food) == [loc |-> (food.loc + 1) % (MaxLoc + 1)]

\* ----------------------------------------------------------- GameInstance
\* new GameInstance(snake, food): the constructor declares no parameters and
\* builds its own snake and food.
GameInstance(snake, food) ==
  [snake |-> NewSnake, food |-> NewFood, score |-> 0, isOver |-> FALSE]

\* gameInstance.run() where snake.eat(food) returns eat and gameOver() returns
\* crash after the move.  Neither score nor isOver is assigned.
run(gi, eat, crash) ==
  [gi EXCEPT !.food = IF eat THEN updateLocation(@) ELSE @,
             !.snake.len = IF eat THEN @ + 1 ELSE @,
             !.snake.dead = crash]

\* gameInstance.calculateFitness(): the score shown at game over,
\* snake.body.length - 1.
calculateFitness(gi) == gi.snake.len - 1

\* gameInstance.reset(): clears the episode state, keeps the brain.
reset(gi) ==
  [gi EXCEPT !.snake.len = 1, !.snake.dead = FALSE, !.food = NewFood,
             !.score = 0, !.isOver = FALSE]

\* gameInstance.mutate(): perturbs the brain in place.
mutate(gi) == [gi EXCEPT !.snake.brain = @ + 1]

\* ------------------------------------------------------------- variables
VARIABLES
  gameInstances,  \* this.gameInstances: sequence of references (object ids)
  heap,           \* the GameInstance objects the references point to
  created,        \* createGameInstances calls so far: 0, 1, or 2 for "several"
  lastOp,         \* the public operation that ran last
  thrown,         \* the last operation ended with an exception
  calls,          \* calls made on instances by the last operation, in order
  proto,          \* the arguments of createGameInstances while it is the last operation
  sElements,      \* sampler harness: the elements array of the caller
  sWeights,       \* sampler harness: the weights array of the caller
  sWeightsBefore, \* sampler harness: the weights array as passed to the last call
  sDraw,          \* sampler harness: the last Math.random()
  sResult,        \* sampler harness: value returned by the last call
  sCalled,        \* sampler harness: a call has been made
  sThrown         \* sampler harness: the last call ended with an exception

mvars == <<gameInstances, heap, created, lastOp, thrown, calls, proto>>

svars == <<sElements, sWeights, sWeightsBefore, sDraw, sResult, sCalled, sThrown>>

vars == <<mvars, svars>>

\* The values of Math.random() explored with denominator den: [0, 1).
Randoms(den) == {Rat(k, den) : k \in 0..(den - 1)}

\* -------------------------------------------------- GameInstancesManager
\* this.nInstances
nInstances == NInstances

\* References have no names in the program.  The model names the objects
\* reachable from gameInstances 1..k in order of first appearance there, and
\* heap is the sequence of those objects.  calls uses the names the objects
\* had when the operation started.
Range(s) == {s[i] : i \in 1..Len(s)}

\* The name of the object refs[i] once the objects are named by first appearance.
Rank(refs, i) ==
  LET first == CHOOSE j \in 1..i : refs[j] = refs[i] /\ \A l \in 1..(j - 1) : refs[l] # refs[i]
  IN Cardinality({refs[l] : l \in 1..first})

\* gameInstances after this.gameInstances = refs, objects renamed.
Renamed(refs) == [i \in 1..Len(refs) |-> Rank(refs, i)]

\* The objects still reachable from refs, under their new names.
Live(h, refs) ==
  [n \in 1..Cardinality(Range(refs)) |->
     h[refs[CHOOSE i \in 1..Len(refs) : Rank(refs, i) = n]]]

\* The name of the next object to allocate.
FreshId(h) == Len(h) + 1

\* One call on an instance: the method, the instance, the value returned
\* (0 where the method returns nothing).
Call(op, id, ret) == [op |-> op, id |-> id, ret |-> ret]

\* The value of proto when the last operation took no prototype.
NoProto == [snake |-> NewSnake, food |-> NewFood]

\* State after the constructor: nInstances stored, gameInstances = [].
ManagerInit ==
  /\ gameInstances = <<>>
  /\ heap = <<>>
  /\ created = 0
  /\ lastOp = "constructor"
  /\ thrown = FALSE
  /\ calls = <<>>
  /\ proto = NoProto

\* createGameInstance(snake, food)
createGameInstance(snake, food) == GameInstance(snake, food)

RECURSIVE CreateLoopOffByOne(_, _, _, _, _)
\* Faulty variant of CreateLoop: the loop runs while i <= nInstances.
CreateLoopOffByOne(i, h, refs, snake, food) ==
  IF i > nInstances THEN [heap |-> h, refs |-> refs]
  ELSE CreateLoopOffByOne(i + 1, Append(h, GameInstance(snake, food)),
                          Append(refs, FreshId(h)), snake, food)

RECURSIVE CreateLoop(_, _, _, _, _)
\* The for loop of createGameInstances from iteration i.
CreateLoop(i, h, refs, snake, food) ==
  IF i >= nInstances THEN [heap |-> h, refs |-> refs]
  ELSE LET snakeCopy == SnakeCopy(snake)
           foodCopy == FoodCopy(food)
           id == FreshId(h)
           gi == createGameInstance(snakeCopy, foodCopy)
       IN CreateLoop(i + 1, Append(h, gi), Append(refs, id), snake, food)

createGameInstances(h, refs, snake, food) == CreateLoop(0, h, refs, snake, food)

CreateGameInstances(snake, food) ==
  /\ Len(gameInstances) + nInstances <= MaxPopulation
  /\ \E r \in {createGameInstances(heap, gameInstances, snake, food)} :
        /\ gameInstances' = r.refs
        /\ heap' = r.heap
  /\ created' = IF created = 0 THEN 1 ELSE 2
  /\ lastOp' = "createGameInstances"
  /\ thrown' = FALSE
  /\ calls' = <<>>
  /\ proto' = [snake |-> snake, food |-> food]

RECURSIVE RunLoop(_, _, _, _)
\* forEach of runInstances from slot i; outcome[i] is what the i-th run meets.
RunLoop(i, h, refs, outcome) ==
  IF i > Len(refs) THEN h
  ELSE LET id == refs[i]
       IN RunLoop(i + 1,
                  [h EXCEPT ![id] = run(@, outcome[i] = "eat", outcome[i] = "crash")],
                  refs, outcome)

\* What one run() meets: the snake eats, or the game is over after the move,
\* or neither.
RunOutcomes == {"move", "eat", "crash"}

runInstances(h, refs, outcome) == RunLoop(1, h, refs, outcome)

RunInstances(outcome) ==
  /\ \E h \in {runInstances(heap, gameInstances, outcome)} :
        /\ \A id \in DOMAIN h : h[id].snake.len <= MaxSnakeLen
        /\ heap' = h
  /\ lastOp' = "runInstances"
  /\ thrown' = FALSE
  /\ calls' = [i \in 1..Len(gameInstances) |-> Call("run", gameInstances[i], 0)]
  /\ proto' = NoProto
  /\ UNCHANGED <<gameInstances, created>>

\* allInstancesOver()
allInstancesOver == \A i \in 1..Len(gameInstances) : heap[gameInstances[i]].isOver

\* get snakes()
snakes == [i \in 1..Len(gameInstances) |-> heap[gameInstances[i]].snake]

RECURSIVE SumInts(_, _)
SumInts(s, i) == IF i > Len(s) THEN 0 ELSE s[i] + SumInts(s, i + 1)

\* fitnessesNormalized of selection()
FitnessesNormalized(h, refs) ==
  LET fitnesses == [i \in 1..Len(refs) |-> calculateFitness(h[refs[i]])]
      totalFitness == SumInts(fitnesses, 1)
  IN [i \in 1..Len(refs) |-> Div(fitnesses[i], totalFitness)]

\* Faulty variant of Picked: the picked instance is not reset.
PickedNoReset(gi) == gi

\* What selection does with the instance picked for a slot.
Picked(gi) == reset(gi)

RECURSIVE SelectLoop(_, _, _, _, _, _, _)
\* The for loop of selection() from iteration i: h is the heap so far, weights
\* the fitnessesNormalized array as earlier calls left it.
SelectLoop(i, h, refs, weights, new, log, draw) ==
  IF i >= nInstances
    THEN [heap |-> h, new |-> new, calls |-> log, thrown |-> FALSE]
  ELSE LET gameInstance == weightedRandomSelection(refs, weights, draw[i + 1])
       IN IF gameInstance = Null
            THEN [heap |-> h, new |-> new, calls |-> log, thrown |-> TRUE]
            ELSE SelectLoop(i + 1,
                            [h EXCEPT ![gameInstance] = Picked(@)],
                            refs, WeightsAfter(weights),
                            Append(new, gameInstance),
                            Append(log, Call("reset", gameInstance, 0)), draw)

\* Faulty variant of selection: the survivors are pushed onto this.gameInstances
\* instead of replacing it.
selectionPushes(h, refs, draw) ==
  LET log == [i \in 1..Len(refs) |->
                Call("calculateFitness", refs[i], calculateFitness(h[refs[i]]))]
      r == SelectLoop(0, h, refs, FitnessesNormalized(h, refs), <<>>, log, draw)
  IN [heap |-> r.heap, refs |-> IF r.thrown THEN refs ELSE refs \o r.new,
      calls |-> r.calls, thrown |-> r.thrown]

\* selection(): result of the loop; this.gameInstances is replaced only when
\* the loop completes.
selection(h, refs, draw) ==
  LET log == [i \in 1..Len(refs) |->
                Call("calculateFitness", refs[i], calculateFitness(h[refs[i]]))]
      r == SelectLoop(0, h, refs, FitnessesNormalized(h, refs), <<>>, log, draw)
  IN [heap |-> r.heap, refs |-> IF r.thrown THEN refs ELSE r.new,
      calls |-> r.calls, thrown |-> r.thrown]

RECURSIVE MutateLoop(_, _, _, _)
\* forEach of mutation() from slot i.
MutateLoop(i, h, refs, log) ==
  IF i > Len(refs) THEN [heap |-> h, calls |-> log]
  ELSE LET id == refs[i]
       IN MutateLoop(i + 1, [h EXCEPT ![id] = mutate(@)], refs,
                     Append(log, Call("mutate", id, 0)))

mutation(h, refs) == MutateLoop(1, h, refs, <<>>)

\* Faulty variant of nextGeneration: mutation() runs before selection().
nextGenerationMutationFirst(h, refs, draw) ==
  LET m == mutation(h, refs)
      s == selection(m.heap, refs, draw)
  IN [heap |-> s.heap, refs |-> s.refs, calls |-> m.calls \o s.calls,
      thrown |-> s.thrown]

\* nextGeneration(): selection() then mutation(); an exception in selection()
\* propagates and mutation() is not reached.
nextGeneration(h, refs, draw) ==
  LET s == selection(h, refs, draw)
      m == mutation(s.heap, s.refs)
  IN IF s.thrown THEN s
     ELSE [heap |-> m.heap, refs |-> s.refs, calls |-> s.calls \o m.calls,
           thrown |-> FALSE]

\* A public call of selection() alone.
Selection(draw) ==
  /\ \E r \in {selection(heap, gameInstances, draw)} :
        /\ gameInstances' = Renamed(r.refs)
        /\ heap' = Live(r.heap, r.refs)
        /\ calls' = r.calls
        /\ thrown' = r.thrown
  /\ lastOp' = "selection"
  /\ proto' = NoProto
  /\ UNCHANGED created

\* A public call of mutation() alone.
Mutation ==
  /\ \E r \in {mutation(heap, gameInstances)} :
        /\ \A id \in DOMAIN r.heap : r.heap[id].snake.brain <= MaxBrain
        /\ heap' = r.heap
        /\ calls' = r.calls
  /\ thrown' = FALSE
  /\ lastOp' = "mutation"
  /\ proto' = NoProto
  /\ UNCHANGED <<gameInstances, created>>

NextGeneration(draw) ==
  /\ \E r \in {nextGeneration(heap, gameInstances, draw)} :
        /\ \A id \in DOMAIN r.heap : r.heap[id].snake.brain <= MaxBrain
        /\ gameInstances' = Renamed(r.refs)
        /\ heap' = Live(r.heap, r.refs)
        /\ calls' = r.calls
        /\ thrown' = r.thrown
  /\ lastOp' = "nextGeneration"
  /\ proto' = NoProto
  /\ UNCHANGED created

\* Prototype snakes and foods handed to createGameInstances.
Protos ==
  { [snake |-> NewSnake, food |-> NewFood],
    [snake |-> [brain |-> 1, len |-> 1, dead |-> FALSE], food |-> [loc |-> 1]] }

SamplerIdle ==
  /\ sElements = <<>>
  /\ sWeights = <<>>
  /\ sWeightsBefore = <<>>
  /\ sDraw = Rat(0, 1)
  /\ sResult = Null
  /\ sCalled = FALSE
  /\ sThrown = FALSE

Init == ManagerInit /\ SamplerIdle

Next ==
  \/ \E p \in Protos :
       CreateGameInstances(p.snake, p.food) /\ UNCHANGED svars
  \/ \E outcome \in [1..Len(gameInstances) -> RunOutcomes] :
       RunInstances(outcome) /\ UNCHANGED svars
  \/ \E draw \in [1..nInstances -> Randoms(GenRandDen)] :
       NextGeneration(draw) /\ UNCHANGED svars
  \/ \E draw \in [1..nInstances -> Randoms(GenRandDen)] :
       Selection(draw) /\ UNCHANGED svars
  \/ Mutation /\ UNCHANGED svars

Spec == Init /\ [][Next]_vars

\* ------------------------------------------------- sampler specification
WeightValues == {NaN} \cup {Rat(n, 1) : n \in 0..MaxWeight}

SeqsUpTo(S, n) == UNION {[1..m -> S] : m \in 0..n}

SamplerInit ==
  /\ \E m \in 0..MaxLen : sElements = [i \in 1..m |-> i]
  /\ sWeights \in SeqsUpTo(WeightValues, MaxLen)
  /\ sWeightsBefore = sWeights
  /\ sDraw = Rat(0, 1)
  /\ sResult = Null
  /\ sCalled = FALSE
  /\ sThrown = FALSE
  /\ ManagerInit

\* One call weightedRandomSelection(sElements, sWeights) with Math.random() = random.
\* The function has no throw statement and reads only array indices and
\* lengths, so no call on two arrays ends with an exception.
Select(random) ==
  /\ sCalled' = TRUE
  /\ sThrown' = FALSE
  /\ sDraw' = random
  /\ sWeightsBefore' = sWeights
  /\ sResult' = weightedRandomSelection(sElements, sWeights, random)
  /\ sWeights' = WeightsAfter(sWeights)
  /\ UNCHANGED <<sElements, mvars>>

SamplerNext == \E random \in Randoms(RandDen) : Select(random)

SamplerSpec == SamplerInit /\ [][SamplerNext]_vars

\* ------------------------------------------------------------ properties
\* The calls of one method in the log of the last operation, in order.
CallsOf(op) == SelectSeq(calls, LAMBDA c : c.op = op)

FitnessCalls == CallsOf("calculateFitness")

ResetCalls == CallsOf("reset")

MutateCalls == CallsOf("mutate")

\* Size of the population when the last selection() started.
SizeBefore == Len(FitnessCalls)

\* The instances of the population the last selection() started from that
\* had positive fitness.
PositiveIds == {FitnessCalls[i].id : i \in {j \in 1..Len(FitnessCalls) : FitnessCalls[j].ret > 0}}

\* The freshly-reset episode state: not over, zero score and fitness.
IsReset(gi) ==
  /\ gi.isOver = FALSE
  /\ gi.score = 0
  /\ calculateFitness(gi) = 0
  /\ gi.snake.dead = FALSE

\* a = b as numbers ; NaN equals nothing
NumEq(a, b) == ~a.nan /\ ~b.nan /\ a.n * b.d = b.n * a.d

\* The sampler was handed arrays of one length, at least 1.
SameLength == Len(sWeightsBefore) = Len(sElements) /\ Len(sElements) >= 1

\* C1: a nextGeneration() call made on a population of exactly nInstances
\* instances leaves a population of exactly nInstances entries.
C1_SizeInvariance ==
  (lastOp = "nextGeneration" /\ SizeBefore = nInstances)
    => Len(gameInstances) = nInstances

C1_Witness ==
  /\ lastOp = "nextGeneration"
  /\ SizeBefore = nInstances
  /\ ~thrown
  /\ \E i \in 1..Len(FitnessCalls) : FitnessCalls[i].ret > 0
  /\ \E i \in 1..Len(FitnessCalls) : FitnessCalls[i].ret = 0

\* C2: when selection() returns, every member of the new population is in
\* the freshly-reset state, whatever it was before.
C2_ResetCorrectness ==
  (lastOp = "selection" /\ ~thrown)
    => \A i \in 1..Len(gameInstances) : IsReset(heap[gameInstances[i]])

\* A survivor that had positive fitness was picked for two slots.
C2_Witness ==
  /\ lastOp = "selection"
  /\ ~thrown
  /\ \E i, j \in 1..Len(ResetCalls) :
       /\ i # j
       /\ ResetCalls[i].id = ResetCalls[j].id
       /\ ResetCalls[i].id \in PositiveIds

\* C3 (as claimed): one mutation() call invokes mutate exactly once on each
\* instance of the population.
C3_MutateOncePerInstance ==
  lastOp = "mutation"
    => \A id \in DOMAIN heap :
         Cardinality({i \in 1..Len(calls) :
                        calls[i].op = "mutate" /\ calls[i].id = id}) = 1

\* C4 (as claimed): with weights that are all zero, weightedRandomSelection
\* returns null for every draw.
C4_ZeroTotalReturnsNull ==
  (sCalled /\ SameLength
     /\ \A i \in 1..Len(sWeightsBefore) : NumEq(sWeightsBefore[i], Rat(0, 1)))
    => sResult = Null

\* The element a uniform choice returns for the draw random: the first i
\* with random <= i / len.
UniformPick(elements, random) ==
  elements[CHOOSE i \in 1..Len(elements) :
             /\ random.n * Len(elements) <= i * random.d
             /\ \A j \in 1..(i - 1) : random.n * Len(elements) > j * random.d]

\* C5: when every weight is NaN, each draw returns the element a uniform
\* choice returns (never null), and every element is returned for some draw.
C5_UniformFallback ==
  (SameLength /\ AllNaN(sWeightsBefore))
    => /\ sCalled => (sResult # Null /\ sResult = UniformPick(sElements, sDraw))
       /\ \A i \in 1..Len(sElements) :
            \E random \in Randoms(RandDen) :
              weightedRandomSelection(sElements, sWeightsBefore, random) = sElements[i]

\* The last of MaxLen elements was returned for all-NaN weights.
C5_Witness ==
  /\ sCalled
  /\ SameLength
  /\ AllNaN(sWeightsBefore)
  /\ Len(sElements) = MaxLen
  /\ sResult = sElements[MaxLen]

\* C6 (as claimed): when exactly one instance has positive fitness, every
\* slot of the new population is that instance, for every draw.
C6_OnlyPositiveFitnessSelected ==
  (lastOp \in {"selection", "nextGeneration"} /\ ~thrown
     /\ Cardinality(PositiveIds) = 1)
    => \A i \in 1..Len(ResetCalls) : ResetCalls[i].id \in PositiveIds

\* selection() ran to completion: nInstances survivors reset, and the
\* population replaced by them.
SelectionCompleted ==
  /\ ~thrown
  /\ Len(ResetCalls) = nInstances
  /\ gameInstances = Renamed([j \in 1..nInstances |-> ResetCalls[j].id])

\* mutation() ran after selection(): one mutate per slot of the new
\* population, on the instance reset for that slot, and no reset after a
\* mutate.
MutationFollowedSelection ==
  /\ Len(MutateCalls) = nInstances
  /\ \A j \in 1..Len(MutateCalls) :
       j <= Len(ResetCalls) /\ MutateCalls[j].id = ResetCalls[j].id
  /\ \A i, j \in 1..Len(calls) :
       (calls[i].op = "mutate" /\ calls[j].op = "reset") => j < i

C8_SlotsIndependent ==
  \A i, j \in 1..Len(gameInstances) :
    i # j => gameInstances[i] # gameInstances[j]

\* C9 (as claimed): each instance made by createGameInstances(snake, food)
\* holds the copies of snake and food, and starts with score 0, not over.
C9_InstancesHoldCopies ==
  lastOp = "createGameInstances"
    => \A i \in (Len(gameInstances) - nInstances + 1)..Len(gameInstances) :
         LET gi == heap[gameInstances[i]]
         IN /\ gi.snake = SnakeCopy(proto.snake)
            /\ gi.food = FoodCopy(proto.food)
            /\ gi.score = 0
            /\ gi.isOver = FALSE

\* C10 (as claimed): the population size is nInstances in every state.
C10_SizeAlwaysN == Len(gameInstances) = nInstances

\* C10 (amended): the population is empty until createGameInstances is
\* called, has nInstances entries while it has been called exactly once, and
\* a positive multiple of nInstances after further calls.
C10_SizeByCreations ==
  /\ created = 0 => Len(gameInstances) = 0
  /\ created = 1 => Len(gameInstances) = nInstances
  /\ created = 2 => /\ Len(gameInstances) >= nInstances
                    /\ Len(gameInstances) % nInstances = 0

\* One createGameInstances call, then a generation, then a run.
C10_Witness ==
  /\ created = 1
  /\ lastOp = "runInstances"
  /\ Len(gameInstances) = nInstances
  /\ \E i, j \in 1..Len(gameInstances) : i # j /\ gameInstances[i] = gameInstances[j]

\* Every weight handed to the last call is a number.
NoneNaN == \A i \in 1..Len(sWeightsBefore) : ~isNaN(sWeightsBefore[i])

\* The weights handed to the last call over their common denominator.
CommonDen(i) ==
  LET F[j \in 0..Len(sWeightsBefore)] ==
        IF j = 0 THEN 1 ELSE F[j - 1] * sWeightsBefore[j].d
  IN F[i]

Scaled(i) ==
  sWeightsBefore[i].n * (CommonDen(Len(sWeightsBefore)) \div sWeightsBefore[i].d)

\* weights[1] + ... + weights[i], over the common denominator.
Prefix(i) ==
  LET F[j \in 0..Len(sWeightsBefore)] ==
        IF j = 0 THEN 0 ELSE F[j - 1] + Scaled(j)
  IN F[i]

\* C12 (as claimed): weightedRandomSelection leaves the elements and the
\* weights array of its caller as they were.
C12_ArgumentsUnchanged == sCalled => sWeights = sWeightsBefore

\* The number of the K * total draws k / (K * total), k = 0 .. K * total - 1,
\* for which element i is returned.
DrawsSelecting(i, K, total) ==
  Cardinality({k \in 0..(K * total - 1) :
                 weightedRandomSelection(sElements, sWeightsBefore,
                                         Rat(k, K * total)) = sElements[i]})

IntegerWeights == \A i \in 1..Len(sWeightsBefore) : sWeightsBefore[i].d = 1

\* C13: for non-negative weights with positive total, element i is selected
\* in proportion weights[i] / total: of K * total equally spaced draws in
\* [0, 1), K * weights[i] select it, give or take the one draw at an end of
\* its slice.
C13_Proportionate ==
  (SameLength /\ NoneNaN /\ IntegerWeights /\ Prefix(Len(sWeightsBefore)) > 0)
    => \A i \in 1..Len(sElements) :
         LET total == Prefix(Len(sWeightsBefore))
             n == DrawsSelecting(i, DrawsPerUnit, total)
             share == DrawsPerUnit * sWeightsBefore[i].n
         IN share - 1 <= n /\ n <= share + 1

\* Elements [1, 2, 3] with weights [1, 2, 3], the last element returned.
C13_Witness ==
  /\ sCalled
  /\ sElements = <<1, 2, 3>>
  /\ sWeightsBefore = <<Rat(1, 1), Rat(2, 1), Rat(3, 1)>>
  /\ sResult = 3
  /\ DrawsSelecting(3, DrawsPerUnit, 6) > DrawsSelecting(1, DrawsPerUnit, 6)

\* The least index whose cumulative weight reaches the draw scaled by the
\* total.
LeastReached(random) ==
  CHOOSE i \in 1..Len(sElements) :
    /\ random.n * Prefix(Len(sWeightsBefore)) <= Prefix(i) * random.d
    /\ \A j \in 1..(i - 1) :
         random.n * Prefix(Len(sWeightsBefore)) > Prefix(j) * random.d

\* C14: for equal-length arrays, non-negative weights with positive total,
\* the call returns elements[i] for the least i with r <= weights[1] + ... +
\* weights[i], and never null.
C14_LeastCumulativeIndex ==
  (sCalled /\ SameLength /\ NoneNaN /\ Prefix(Len(sWeightsBefore)) > 0)
    => /\ sResult # Null
       /\ sResult = sElements[LeastReached(sDraw)]

\* A draw of 0 on a first weight of 0 returns the first element, and some
\* call returns the last element.
C14_Witness ==
  /\ sCalled
  /\ SameLength
  /\ NoneNaN
  /\ Len(sElements) = MaxLen
  /\ sWeightsBefore[1].n = 0
  /\ Prefix(Len(sWeightsBefore)) > 0
  /\ sDraw.n = 0
  /\ sResult = sElements[1]

\* C16: when some but not all weights are NaN, the call returns null for
\* every draw.
C16_PartialNaNReturnsNull ==
  (sCalled /\ ~NoneNaN /\ ~AllNaN(sWeightsBefore)) => sResult = Null

\* A number first, a NaN after it, equal lengths.
C16_Witness ==
  /\ sCalled
  /\ SameLength
  /\ Len(sWeightsBefore) >= 2
  /\ ~isNaN(sWeightsBefore[1]) /\ sWeightsBefore[1].n > 0
  /\ isNaN(sWeightsBefore[Len(sWeightsBefore)])
  /\ sResult = Null

\* C19 (as claimed): a call with elements and weights of different lengths
\* signals an error.
C19_MismatchSignalsError ==
  (sCalled /\ Len(sWeightsBefore) # Len(sElements)) => sThrown

\* The episode of the instance has ended: it reports over, or gameOver() was
\* true in its last run().
Terminal(gi) == gi.isOver \/ gi.snake.dead

\* The number of calls of one method on one instance in the log.
TimesCalled(log, op, id) ==
  Cardinality({i \in 1..Len(log) : log[i].op = op /\ log[i].id = id})

\* C11 (as claimed): runInstances() runs every instance of the population
\* exactly once, and leaves an instance that was already terminal as it was.
C11_RunOnceAndIdleWhenTerminal ==
  [][lastOp' = "runInstances"
       => \A id \in DOMAIN heap :
            /\ TimesCalled(calls', "run", id) = 1
            /\ Terminal(heap[id]) => heap'[id] = heap[id]]_vars

\* The population selection() started from, and its normalized fitnesses,
\* read back from the calculateFitness calls of the log.
RefsBefore == [i \in 1..Len(FitnessCalls) |-> FitnessCalls[i].id]

WeightsBefore ==
  LET total == SumInts([i \in 1..Len(FitnessCalls) |-> FitnessCalls[i].ret], 1)
  IN [i \in 1..Len(FitnessCalls) |-> Div(FitnessCalls[i].ret, total)]

\* C15: on a non-empty population (fitnesses non-negative and finite, all
\* zero included) every pick of selection() is a member of the previous
\* population, never null, and selection() completes.
C15_SelectionNeverPicksNull ==
  (lastOp \in {"selection", "nextGeneration"} /\ SizeBefore > 0)
    => /\ ~thrown
       /\ Len(ResetCalls) = nInstances
       /\ \A j \in 1..Len(ResetCalls) : ResetCalls[j].id \in Range(RefsBefore)

\* Every fitness was 0 and the last member of the population was picked.
C15_Witness ==
  /\ lastOp = "selection"
  /\ SizeBefore > 0
  /\ \A i \in 1..Len(FitnessCalls) : FitnessCalls[i].ret = 0
  /\ ~thrown
  /\ \E j \in 1..Len(ResetCalls) : ResetCalls[j].id = RefsBefore[SizeBefore]
  /\ RefsBefore[SizeBefore] # RefsBefore[1]

\* C17 (as claimed): an instance whose gameOver() was true during run()
\* reports isOver, so that allInstancesOver() is true once every instance of
\* a non-empty population got there.
C17_GameOverReportsOver ==
  /\ \A i \in 1..Len(gameInstances) :
       heap[gameInstances[i]].snake.dead => heap[gameInstances[i]].isOver
  /\ (\A i \in 1..Len(gameInstances) : heap[gameInstances[i]].snake.dead)
       => allInstancesOver

\* Each pick of the last selection() is what weightedRandomSelection returns
\* for some draw on the fitnesses computed before the first reset.
PicksFromFitnessBefore ==
  \A j \in 1..Len(ResetCalls) :
    \E random \in Randoms(GenRandDen) :
      ResetCalls[j].id = weightedRandomSelection(RefsBefore, WeightsBefore, random)

\* Every calculateFitness call of the log comes before every reset.
FitnessBeforeResets ==
  \A i, j \in 1..Len(calls) :
    (calls[i].op = "calculateFitness" /\ calls[j].op = "reset") => i < j

\* C18 (as claimed): selection() computes fitness exactly once per instance,
\* before any reset, and every pick is drawn from those fitnesses.
C18_FitnessOncePerInstance ==
  (lastOp \in {"selection", "nextGeneration"} /\ ~thrown)
    => /\ \A i \in 1..Len(FitnessCalls) :
            TimesCalled(calls, "calculateFitness", FitnessCalls[i].id) = 1
       /\ FitnessBeforeResets
       /\ PicksFromFitnessBefore

====
